---- MODULE Spec2Model ----
(***************************************************************************)
(* Verification model of the crop treatment decision pipeline              *)
(* (crop_agent): DecisionAgent.decide, LLMEngine, Utils.parse_json /       *)
(* parse_response / parse_plan, the prompt builders, SafetyValidator,      *)
(* memory retrieval and the ingestion script.                              *)
(*                                                                         *)
(* Text is modelled as a sequence of tokens.  A token is a brace, a        *)
(* markdown fence, a word of prose, or a whole JSON member (a key/value    *)
(* pair together with the comma that separates it from its neighbour).     *)
(* A member whose value is a free string is written piece by piece: its    *)
(* opening, the pieces of the string, and its closing quote.               *)
(* A Python dict is a function from its keys to its values.                *)
(***************************************************************************)
EXTENDS Integers, Sequences, FiniteSets, TLC

\* Largest number of tokens in a text returned by the backend.
MaxLen == 5

\* Number of neighbours the index returns for one search (memory.top_k).
MaxTopK == 1

\* Largest memory.top_k of a retrieval taken on its own.
MaxNeighbours == 3

\* Largest number of tokens in a text handed to parse_json on its own.
MaxParseLen == 7

\* Largest number of tokens in a text that is extracted, serialized and extracted again.
MaxRoundTripLen == 8

\* Largest number of cases in the seed file, and of ingestion runs.
MaxCases == 2
MaxRuns == 3

\* Largest number of entries in the memory list handed to build_prompt.
MaxMemory == 3

\* Largest row id of the case store, and largest position of the index.
MaxRows == 2

-----------------------------------------------------------------------------
(* Dicts *)

\* Python's None.
None == "None"

EmptyDict == << >>

\* d.get(k, default)
Get(d, k, default) == IF k \in DOMAIN d THEN d[k] ELSE default

\* {**d, k: v} and d[k] = v
Put(d, k, v) == (k :> v) @@ d

\* {**base, **over}: the keys of over win.
Merge(base, over) == over @@ base

-----------------------------------------------------------------------------
(* Tokens and texts *)

LBRACE == "{"
RBRACE == "}"
\* A markdown fence (three backticks), with or without an attached json tag: the
\* fence pattern of parse_json treats both alike.
FENCE == "FENCE"
PROSE == "w"

\* A member with a free string value, "note": "...": everything up to and with the
\* opening quote of the string, and the closing quote.
QOPEN == "note<"
QCLOSE == ">"

\* A fence spelled with \u0060 escapes: three backticks to a JSON parser once it
\* is inside a string, no fence to a regular expression.
FENCE_ESC == "FENCE_ESC"

\* What a JSON string can hold between its quotes.
StringContent == {LBRACE, RBRACE, FENCE, FENCE_ESC, PROSE}

\* The JSON members a response can carry whole.
MemberTokens == {"dF", "dX", "rOk", "pPlan", "pWhy"}

\* A plan as the model emits it; its second step uses an action outside
\* planner.allowed_plan_actions.
PlanSteps ==
    << [step |-> 1, action |-> "MONITOR", details |-> "scout"],
       [step |-> 2, action |-> "BURN_FIELD", details |-> "burn"] >>

Member(tok) ==
    CASE tok = "dF"    -> [key |-> "decision", val |-> "FUNGICIDE"]
      [] tok = "dX"    -> [key |-> "decision", val |-> "BURN_FIELD"]
      [] tok = "rOk"   -> [key |-> "reason", val |-> "ok"]
      [] tok = "pPlan" -> [key |-> "plan", val |-> PlanSteps]
      [] tok = "pWhy"  -> [key |-> "reason", val |-> "plan note"]

\* What the backend can answer at the decision stage and at the plan stage.
DecisionTokens == {LBRACE, RBRACE, FENCE, PROSE, "dF", "dX", "rOk"}
PlanTokens == {LBRACE, RBRACE, FENCE, PROSE, "pPlan", "pWhy"}

TextsOver(alphabet) == UNION {[1..n -> alphabet] : n \in 0..MaxLen}

\* The texts parse_json is called with on its own: prose, fences, braces, and a
\* member that has braces inside it.
ParseTokens == {LBRACE, RBRACE, FENCE, PROSE, "pPlan"}

\* The texts of a round trip: braces, fences (plain and escaped), and a member
\* with a free string value.
RoundTripTokens == {LBRACE, RBRACE, FENCE, FENCE_ESC, QOPEN, QCLOSE}

\* The texts of n tokens over an alphabet.
TextsOfLen(alphabet, n) == [1..n -> alphabet]

\* stderr of a failed model process.
Diagnostics == {"model not found"}

-----------------------------------------------------------------------------
(* Utils.parse_json *)

RECURSIVE ObjectOf(_)
\* The dict of a run of key/value pairs; a repeated key keeps its last value.
ObjectOf(pairs) ==
    IF pairs = << >> THEN EmptyDict
    ELSE LET m == pairs[Len(pairs)]
         IN  Put(ObjectOf(SubSeq(pairs, 1, Len(pairs) - 1)), m.key, m.val)

\* The value of a string: its pieces with the escapes decoded.
decode(body) ==
    [i \in 1..Len(body) |-> IF body[i] = FENCE_ESC THEN FENCE ELSE body[i]]

\* Where the string opened by ms[1] is closed: the first closing quote, with
\* nothing but string content before it; 0 when there is none.
StringEnd(ms) ==
    IF \E k \in 2..Len(ms) :
          ms[k] = QCLOSE /\ \A j \in 2..(k - 1) : ms[j] \in StringContent
    THEN CHOOSE k \in 2..Len(ms) :
            ms[k] = QCLOSE /\ \A j \in 2..(k - 1) : ms[j] \in StringContent
    ELSE 0

RECURSIVE members(_)
\* The members between the braces of an object: whole members, and string-valued
\* members from their opening to their closing quote.
members(ms) ==
    IF ms = << >> THEN [ok |-> TRUE, pairs |-> << >>]
    ELSE IF ms[1] \in MemberTokens
    THEN LET rest == members(Tail(ms))
         IN  [ok |-> rest.ok, pairs |-> <<Member(ms[1])>> \o rest.pairs]
    ELSE IF ms[1] = QOPEN /\ StringEnd(ms) # 0
    THEN LET k == StringEnd(ms)
             rest == members(SubSeq(ms, k + 1, Len(ms)))
         IN  [ok |-> rest.ok,
              pairs |-> <<[key |-> "note", val |-> decode(SubSeq(ms, 2, k - 1))]>>
                        \o rest.pairs]
    ELSE [ok |-> FALSE, pairs |-> << >>]

\* json.loads: one object, nothing before or after it, members only inside.
json_loads(s) ==
    IF /\ Len(s) >= 2
       /\ s[1] = LBRACE
       /\ s[Len(s)] = RBRACE
       /\ members(SubSeq(s, 2, Len(s) - 1)).ok
    THEN [ok |-> TRUE, value |-> ObjectOf(members(SubSeq(s, 2, Len(s) - 1)).pairs)]
    ELSE [ok |-> FALSE, value |-> EmptyDict]

\* The order in which json.dumps writes the keys here; the order of the members
\* of an object changes neither what it parses to nor where a fence sits in a string.
KeyOrder == <<"decision", "reason", "plan", "note">>

\* One member as json.dumps writes it: a string is written with its backticks
\* and braces as they are, not escaped.
dumps_member(k, v) ==
    IF k = "note" THEN <<QOPEN>> \o v \o <<QCLOSE>>
    ELSE <<CHOOSE tok \in MemberTokens : Member(tok).key = k /\ Member(tok).val = v>>

RECURSIVE dumps_members(_, _)
dumps_members(o, keys) ==
    IF keys = << >> THEN << >>
    ELSE (IF keys[1] \in DOMAIN o THEN dumps_member(keys[1], o[keys[1]]) ELSE << >>)
         \o dumps_members(o, Tail(keys))

\* json.dumps of an object parse_json returned.
dumps(o) == <<LBRACE>> \o dumps_members(o, KeyOrder) \o <<RBRACE>>

\* The character c occurs in token tok: a brace is itself, and the plan member
\* has the braces of the step objects in its list.
Contains(tok, c) == tok = c \/ (tok = "pPlan" /\ c \in {LBRACE, RBRACE})

\* str.find: index of the first occurrence, 0 when there is none.
find(t, c) ==
    IF \E i \in 1..Len(t) : Contains(t[i], c)
    THEN CHOOSE i \in 1..Len(t) :
            Contains(t[i], c) /\ \A j \in 1..(i - 1) : ~Contains(t[j], c)
    ELSE 0

\* str.rfind: index of the last occurrence, 0 when there is none.
rfind(t, c) ==
    IF \E i \in 1..Len(t) : Contains(t[i], c)
    THEN CHOOSE i \in 1..Len(t) :
            Contains(t[i], c) /\ \A j \in (i + 1)..Len(t) : ~Contains(t[j], c)
    ELSE 0

\* What is left of a member when the slice starts or ends at a brace inside it.
PARTIAL == "partial"

\* response[start:end], start and end being the places of a brace: a member at
\* either end is cut at its brace.
slice(t, start, end) ==
    IF end < start THEN << >>
    ELSE [i \in 1..(end - start + 1) |->
            IF (i = 1 \/ i = end - start + 1) /\ t[start + i - 1] \in MemberTokens
            THEN PARTIAL
            ELSE t[start + i - 1]]

\* The closing braces that end a fenced group opened by the fence at i.
FenceCloses(t, i) ==
    {k \in (i + 2)..(Len(t) - 1) : t[k] = RBRACE /\ t[k + 1] = FENCE}

\* The fences at which the code-fence pattern of parse_json matches: a fence,
\* an opening brace right after it, and later a closing brace right before a fence.
FenceOpens(t) ==
    {i \in 1..(Len(t) - 1) :
        t[i] = FENCE /\ t[i + 1] = LBRACE /\ FenceCloses(t, i) # {}}

Min(S) == CHOOSE x \in S : \A y \in S : x <= y

\* re.search: leftmost match, shortest group.
fenced(t) ==
    IF FenceOpens(t) = {} THEN [found |-> FALSE, group |-> << >>]
    ELSE LET i == Min(FenceOpens(t))
         IN  [found |-> TRUE, group |-> SubSeq(t, i + 1, Min(FenceCloses(t, i)))]

\* Variant: the fence pattern is not tried, only the brace scan.
parse_json_scan_only(response) ==
    LET start == find(response, LBRACE)
        end == rfind(response, RBRACE)
    IN  IF start = 0 \/ end = 0 THEN [ok |-> FALSE, value |-> EmptyDict]
        ELSE json_loads(slice(response, start, end))

parse_json(response) ==
    IF fenced(response).found THEN json_loads(fenced(response).group)
    ELSE LET start == find(response, LBRACE)
             end == rfind(response, RBRACE)
         IN  IF start = 0 \/ end = 0 THEN [ok |-> FALSE, value |-> EmptyDict]
             ELSE json_loads(slice(response, start, end))

-----------------------------------------------------------------------------
(* Utils.parse_response, Utils.parse_plan *)

FallbackDecision ==
    [decision |-> "NO_TREATMENT",
     reason |-> "Fallback: invalid or unsafe LLM output."]

FallbackPlan ==
    [plan |-> << >>,
     reason |-> "Fallback: could not parse plan from LLM output."]

\* Variant: the parsed object is returned without the vocabulary check.
parse_response_unchecked(response, allowed) ==
    LET parsed == parse_json(response)
    IN  IF parsed.ok THEN parsed.value ELSE FallbackDecision

parse_response(response, allowed) ==
    LET parsed == parse_json(response)
    IN  IF parsed.ok /\ Get(parsed.value, "decision", None) \in allowed
        THEN parsed.value
        ELSE FallbackDecision

parse_plan(response) ==
    LET parsed == parse_json(response)
    IN  IF parsed.ok THEN parsed.value ELSE FallbackPlan

-----------------------------------------------------------------------------
(* Configuration and inputs *)

\* agent.allowed_actions, as configured: without and with the fallback action.
TreatmentActions == {"FUNGICIDE", "MONITOR"}
Vocabularies == {TreatmentActions, {"FUNGICIDE", "NO_TREATMENT"}}

\* planner.allowed_plan_actions
AllowedPlanActions == {"MONITOR", "SPRAY"}

CaseContexts ==
    [crop : {"Tomato"}, disease : {"Leaf Blight"},
     severity : {"low", "high"}, confidence : {72, 95}]

\* The case store: row id -> case text.
SeedStore == (1 :> <<"tomato", "blight", "fungicide">>)

\* What the index can return for one search: top_k ids, -1 padding a missing neighbour.
SearchResults == [1..MaxTopK -> {-1, 0}]

-----------------------------------------------------------------------------
(* MetadataStore.get_case, DecisionAgent._retrieve_memory *)

\* None where a case text is expected.
NoCase == <<None>>

get_case(store, case_id) == IF case_id \in DOMAIN store THEN store[case_id] ELSE NoCase

RECURSIVE retrieve_keeps_none(_, _)
\* Variant: a missing case stays in the list as None.
retrieve_keeps_none(store, indices) ==
    IF indices = << >> THEN [texts |-> << >>, reads |-> << >>]
    ELSE LET key == indices[1] + 1
             case == get_case(store, key)
             rest == retrieve_keeps_none(store, Tail(indices))
         IN  [texts |-> <<case>> \o rest.texts, reads |-> <<key>> \o rest.reads]

RECURSIVE retrieve_no_offset(_, _)
\* Variant: the store is read at the neighbour id itself.
retrieve_no_offset(store, indices) ==
    IF indices = << >> THEN [texts |-> << >>, reads |-> << >>]
    ELSE LET key == indices[1]
             case == get_case(store, key)
             rest == retrieve_no_offset(store, Tail(indices))
         IN  [texts |-> IF case # NoCase THEN <<case>> \o rest.texts ELSE rest.texts,
              reads |-> <<key>> \o rest.reads]

RECURSIVE retrieve(_, _)
\* The list comprehension of _retrieve_memory: the texts it yields and the keys
\* it calls get_case with, in the order of the neighbour ids.
retrieve(store, indices) ==
    IF indices = << >> THEN [texts |-> << >>, reads |-> << >>]
    ELSE LET key == indices[1] + 1
             case == get_case(store, key)
             rest == retrieve(store, Tail(indices))
         IN  [texts |-> IF case # NoCase THEN <<case>> \o rest.texts ELSE rest.texts,
              reads |-> <<key>> \o rest.reads]

retrieve_memory(store, indices) == retrieve(store, indices).texts

\* Case texts the store can hold (case_text TEXT), the empty text among them.
CaseTexts ==
    {<<"tomato", "blight", "fungicide">>, <<"pepper", "spot", "monitor">>, << >>}

\* Case stores: AUTOINCREMENT ids start at 1, and a row can be missing.
CaseStores == UNION {[ids -> CaseTexts] : ids \in SUBSET (1..MaxRows)}

\* VectorStore.search: exactly k ids; -1 pads a missing neighbour, and the index
\* can hold a position (MaxRows) that has no row in the store.
IndexSearch(k) == [1..k -> -1..MaxRows]

-----------------------------------------------------------------------------
(* prompt_loader.build_prompt, prompt_loader.build_plan_prompt *)

NoSimilarCases == <<"No similar historical cases.">>

RECURSIVE join(_)
\* "\n".join(entries)
join(entries) ==
    IF entries = << >> THEN << >>
    ELSE IF Len(entries) = 1 THEN entries[1]
    ELSE entries[1] \o <<"\n">> \o join(Tail(entries))

\* m for m in memory if m is not None
not_none(memory) == SelectSeq(memory, LAMBDA m : m # NoCase)

\* Variant: the memory block is the joined entries, also when that is empty.
build_prompt_no_sentinel(context, memory, allowed) ==
    [kind |-> "decision",
     crop |-> context.crop, disease |-> context.disease,
     severity |-> context.severity, confidence |-> context.confidence,
     memory_block |-> join(not_none(memory)),
     actions |-> allowed]

build_prompt(context, memory, allowed) ==
    [kind |-> "decision",
     crop |-> context.crop, disease |-> context.disease,
     severity |-> context.severity, confidence |-> context.confidence,
     memory_block |-> IF join(not_none(memory)) # << >>
                      THEN join(not_none(memory))
                      ELSE NoSimilarCases,
     actions |-> allowed]

\* The memory lists a caller can pass: case texts, and None where get_case found
\* no row and the caller did not drop it.
Memories == UNION {[1..n -> CaseTexts \cup {NoCase}] : n \in 0..MaxMemory}

\* Variant: the decision is read with .get, so a dict without it still renders.
build_plan_prompt_lenient(context, d, allowed) ==
    [ok |-> TRUE,
     value |-> [kind |-> "plan",
                crop |-> context.crop, disease |-> context.disease,
                severity |-> context.severity,
                decision |-> Get(d, "decision", None),
                reason |-> Get(d, "reason", "N/A"),
                actions |-> allowed]]

\* decision["decision"] raises KeyError when the key is missing.
build_plan_prompt(context, d, allowed) ==
    IF "decision" \notin DOMAIN d
    THEN [ok |-> FALSE, error |-> [type |-> "KeyError", message |-> "decision"]]
    ELSE [ok |-> TRUE,
          value |-> [kind |-> "plan",
                     crop |-> context.crop, disease |-> context.disease,
                     severity |-> context.severity,
                     decision |-> d["decision"],
                     reason |-> Get(d, "reason", "N/A"),
                     actions |-> allowed]]

-----------------------------------------------------------------------------
(* SafetyValidator.validate *)

Blocked ==
    [decision |-> "NO_TREATMENT",
     reason |-> "Decision not in allowed action list.",
     safe |-> FALSE,
     override |-> TRUE]

\* Variant: a raw decision without a decision field is never blocked.
validate_absent_passes(context, llm_decision, allowed, block_unknown, require_confirmation) ==
    LET d == Get(llm_decision, "decision", "NO_TREATMENT")
    IN  IF block_unknown /\ "decision" \in DOMAIN llm_decision /\ d \notin allowed
        THEN Merge(llm_decision, Blocked)
        ELSE LET result == Merge(llm_decision, [safe |-> TRUE, override |-> FALSE])
             IN  IF require_confirmation
                 THEN Put(result, "requires_confirmation", TRUE)
                 ELSE result

\* Variant: a blocked decision is returned without the fields of the input.
validate_discards(context, llm_decision, allowed, block_unknown, require_confirmation) ==
    LET d == Get(llm_decision, "decision", "NO_TREATMENT")
    IN  IF block_unknown /\ d \notin allowed
        THEN Blocked
        ELSE LET result == Merge(llm_decision, [safe |-> TRUE, override |-> FALSE])
             IN  IF require_confirmation
                 THEN Put(result, "requires_confirmation", TRUE)
                 ELSE result

\* Variant: the fields of the input win over the safety metadata.
validate_input_wins(context, llm_decision, allowed, block_unknown, require_confirmation) ==
    LET d == Get(llm_decision, "decision", "NO_TREATMENT")
    IN  IF block_unknown /\ d \notin allowed
        THEN Merge(Blocked, llm_decision)
        ELSE LET result == Merge([safe |-> TRUE, override |-> FALSE], llm_decision)
             IN  IF require_confirmation
                 THEN Put(result, "requires_confirmation", TRUE)
                 ELSE result

\* Variant: a decision for a low-severity case is overridden.
validate_by_severity(context, llm_decision, allowed, block_unknown, require_confirmation) ==
    LET d == Get(llm_decision, "decision", "NO_TREATMENT")
    IN  IF (block_unknown /\ d \notin allowed) \/ context.severity = "low"
        THEN Merge(llm_decision, Blocked)
        ELSE LET result == Merge(llm_decision, [safe |-> TRUE, override |-> FALSE])
             IN  IF require_confirmation
                 THEN Put(result, "requires_confirmation", TRUE)
                 ELSE result

\* Variant: a blocked decision keeps the decision field of the input.
validate_keeps_decision(context, llm_decision, allowed, block_unknown, require_confirmation) ==
    LET d == Get(llm_decision, "decision", "NO_TREATMENT")
    IN  IF block_unknown /\ d \notin allowed
        THEN Merge(Blocked, [k \in DOMAIN llm_decision \cap {"decision"} |-> llm_decision[k]])
        ELSE LET result == Merge(llm_decision, [safe |-> TRUE, override |-> FALSE])
             IN  IF require_confirmation
                 THEN Put(result, "requires_confirmation", TRUE)
                 ELSE result

validate(context, llm_decision, allowed, block_unknown, require_confirmation) ==
    LET d == Get(llm_decision, "decision", "NO_TREATMENT")
    IN  IF block_unknown /\ d \notin allowed
        THEN Merge(llm_decision, Blocked)
        ELSE LET result == Merge(llm_decision, [safe |-> TRUE, override |-> FALSE])
             IN  IF require_confirmation
                 THEN Put(result, "requires_confirmation", TRUE)
                 ELSE result

\* A dict that may or may not carry key k.
Optional(k, values) == {EmptyDict} \cup {k :> v : v \in values}

\* Raw decisions handed to validate: every field optional, an extra key the
\* model emitted, and keys that collide with the safety metadata.
RawDecisions ==
    {Merge(Merge(Merge(Merge(a, b), c), d), e) :
        a \in Optional("decision", {"FUNGICIDE", "NO_TREATMENT", "BURN_FIELD"}),
        b \in Optional("reason", {"ok"}),
        c \in Optional("note", {"n"}),
        d \in Optional("override", {TRUE}),
        e \in Optional("safe", {FALSE})}

-----------------------------------------------------------------------------
(* State *)

VARIABLES
    allowed_actions,            \* agent.allowed_actions
    enforce_json,               \* llm.enforce_json
    block_unknown_actions,      \* agent.safety.block_unknown_actions
    require_human_confirmation, \* agent.safety.require_human_confirmation
    case_store,                 \* the rows of the case store
    case_context,               \* the argument of decide
    pc,                         \* the stage decide is in
    similar_cases,              \* decide's local: the retrieved texts
    prompt,                     \* the prompt last built
    raw,                        \* generate_decision's local: the backend's text
    decision,                   \* decide's local: the dict it returns
    error,                      \* the exception that left decide
    stages,                     \* history: the stages visited, in order
    backend_calls,              \* history: the prompts passed to backend.run
    searches,                   \* history: number of index searches
    backend_errors,             \* history: the diagnostics of failed backend runs
    decision_rejected,          \* history: the decision-stage text was unusable
    plan_failed,                \* history: no object was extracted from the plan text
    plan_result,                \* history: what build_plan returned
    validated,                  \* history: the decision as validation left it
    v_called,                   \* validate has been called
    v_context,                  \* validate's case_context argument
    v_input,                    \* validate's llm_decision argument
    v_result,                   \* what validate returned
    v_again,                    \* validate has been called again on v_input
    v_other_context,            \* the case_context argument of the second call
    v_other_result,             \* what the second call returned
    top_k,                      \* memory.top_k
    r_called,                   \* _retrieve_memory has been called
    r_indices,                  \* the neighbour ids the index search returned
    r_reads,                    \* history: the keys get_case was called with
    r_result,                   \* what _retrieve_memory returned
    b_called,                   \* build_prompt has been called
    b_memory,                   \* build_prompt's memory argument
    b_prompt,                   \* what build_prompt returned
    p_called,                   \* parse_json has been called
    p_text,                     \* parse_json's argument
    p_result,                   \* what parse_json returned, or that it raised
    p_again_called,             \* the returned object has been serialized and parsed
    p_dumped,                   \* json.dumps of the returned object
    p_again,                    \* what parse_json returned for the serialized object
    cases,                      \* ingestion: the texts of the seed file, in order
    index_file,                 \* the persisted index: the texts of its vectors, by position
    index,                      \* vector_store.index of the running ingestion
    cursor,                     \* ingestion: the case the loop is at
    i_pc,                       \* ingestion: where the script is
    runs,                       \* history: ingestion runs started
    interrupted                 \* history: an ingestion run was interrupted

config == <<allowed_actions, enforce_json, block_unknown_actions,
            require_human_confirmation, case_store>>
frame == <<case_context, pc, similar_cases, prompt, raw, decision, error>>
history == <<stages, backend_calls, searches, backend_errors, decision_rejected,
             plan_failed, plan_result, validated>>
validator == <<v_called, v_context, v_input, v_result,
               v_again, v_other_context, v_other_result>>
retriever == <<top_k, r_called, r_indices, r_reads, r_result>>
builder == <<b_called, b_memory, b_prompt>>
parser == <<p_called, p_text, p_result, p_again_called, p_dumped, p_again>>
ingestion == <<cases, index_file, index, cursor, i_pc, runs, interrupted>>
vars == <<config, frame, history, validator, retriever, builder, parser, ingestion>>

\* The decision-stage text has no brace pair, or no JSON object can be
\* extracted from it, or the object's decision is outside the vocabulary.
Rejected(text, allowed) ==
    \/ find(text, LBRACE) = 0
    \/ rfind(text, RBRACE) = 0
    \/ ~parse_json(text).ok
    \/ Get(parse_json(text).value, "decision", None) \notin allowed

FrameInit ==
    /\ pc = "RETRIEVING"
    /\ similar_cases = << >>
    /\ prompt = EmptyDict
    /\ raw = << >>
    /\ decision = EmptyDict
    /\ error = EmptyDict
    /\ stages = <<"RETRIEVING">>
    /\ backend_calls = << >>
    /\ searches = 0
    /\ backend_errors = << >>
    /\ decision_rejected = FALSE
    /\ plan_failed = FALSE
    /\ plan_result = EmptyDict
    /\ validated = EmptyDict

ValidatorInit ==
    /\ v_called = FALSE
    /\ v_context = EmptyDict
    /\ v_input = EmptyDict
    /\ v_result = EmptyDict
    /\ v_again = FALSE
    /\ v_other_context = EmptyDict
    /\ v_other_result = EmptyDict

RetrieverInit ==
    /\ top_k = MaxTopK
    /\ r_called = FALSE
    /\ r_indices = << >>
    /\ r_reads = << >>
    /\ r_result = << >>

BuilderInit ==
    /\ b_called = FALSE
    /\ b_memory = << >>
    /\ b_prompt = EmptyDict

ParserInit ==
    /\ p_called = FALSE
    /\ p_text = << >>
    /\ p_result = [ok |-> FALSE, value |-> EmptyDict]
    /\ p_again_called = FALSE
    /\ p_dumped = << >>
    /\ p_again = [ok |-> FALSE, value |-> EmptyDict]

IngestionInit ==
    /\ cases = << >>
    /\ index_file = << >>
    /\ index = << >>
    /\ cursor = 1
    /\ i_pc = "idle"
    /\ runs = 0
    /\ interrupted = FALSE

\* decide reads the case only to render the prompts, and the vocabulary only to
\* test the model's decision, which is FUNGICIDE or an action no vocabulary has.
Init ==
    /\ allowed_actions = TreatmentActions
    /\ enforce_json \in BOOLEAN
    /\ block_unknown_actions \in BOOLEAN
    /\ require_human_confirmation = FALSE
    /\ case_store = SeedStore
    /\ case_context \in {c \in CaseContexts : c.confidence = 95}
    /\ FrameInit
    /\ ValidatorInit
    /\ RetrieverInit
    /\ BuilderInit
    /\ ParserInit
    /\ IngestionInit

-----------------------------------------------------------------------------
(* DecisionAgent.decide, one action per stage *)

Goto(stage) ==
    /\ pc' = stage
    /\ stages' = Append(stages, stage)

Raise(e) ==
    /\ error' = e
    /\ Goto("RAISED")

\* decide: similar_cases = self._retrieve_memory(case_context)
Retrieve ==
    /\ pc = "RETRIEVING"
    /\ \E indices \in SearchResults :
          similar_cases' = retrieve_memory(case_store, indices)
    /\ searches' = searches + 1
    /\ Goto("PROMPTING_DECISION")
    /\ UNCHANGED <<config, validator, retriever, builder, parser, ingestion, case_context, prompt, raw, decision, error,
                   backend_calls, backend_errors, decision_rejected, plan_failed, plan_result,
                   validated>>

\* run_with_builder: prompt = builder(*args)
PromptDecision ==
    /\ pc = "PROMPTING_DECISION"
    /\ prompt' = build_prompt(case_context, similar_cases, allowed_actions)
    /\ Goto("AWAITING_DECISION")
    /\ UNCHANGED <<config, validator, retriever, builder, parser, ingestion, case_context, similar_cases, raw, decision,
                   error, backend_calls, searches, backend_errors, decision_rejected,
                   plan_failed, plan_result, validated>>

\* run_with_builder: return self.backend.run(prompt), the backend answering.
DecisionInference ==
    /\ pc = "AWAITING_DECISION"
    /\ \E text \in TextsOver(DecisionTokens) :
          /\ raw' = text
          /\ decision_rejected' = Rejected(text, allowed_actions)
    /\ backend_calls' = Append(backend_calls, prompt)
    /\ Goto("VALIDATING")
    /\ UNCHANGED <<config, validator, retriever, builder, parser, ingestion, case_context, similar_cases, prompt, decision,
                   error, searches, backend_errors, plan_failed, plan_result, validated>>

\* OllamaBackend.run: raise RuntimeError(f"Ollama error: {result.stderr.decode()}")
backend_error(diag) ==
    [type |-> "RuntimeError", message |-> <<"Ollama error: ", diag>>]

\* The backend fails on the decision prompt (non-zero exit, pipeline exception);
\* nothing on the way out of decide catches it.
DecisionBackendFails ==
    /\ pc = "AWAITING_DECISION"
    /\ backend_calls' = Append(backend_calls, prompt)
    /\ \E diag \in Diagnostics :
          /\ backend_errors' = Append(backend_errors, diag)
          /\ Raise(backend_error(diag))
    /\ UNCHANGED <<config, validator, retriever, builder, parser, ingestion, case_context, similar_cases, prompt, raw,
                   decision, searches, decision_rejected, plan_failed, plan_result, validated>>

\* generate_decision after the backend returned.
generate_decision(text, enforce, allowed) ==
    IF enforce THEN parse_response(text, allowed) ELSE [raw_response |-> text]

ValidateDecision ==
    /\ pc = "VALIDATING"
    /\ decision' = generate_decision(raw, enforce_json, allowed_actions)
    /\ validated' = decision'
    /\ raw' = << >>
    /\ Goto("PROMPTING_PLAN")
    /\ UNCHANGED <<config, validator, retriever, builder, parser, ingestion, case_context, similar_cases, prompt, error,
                   backend_calls, searches, backend_errors, decision_rejected,
                   plan_failed, plan_result>>

\* Variant: no plan is requested for the fallback decision.
PromptPlanSkipsFallback ==
    /\ pc = "PROMPTING_PLAN"
    /\ LET built == build_plan_prompt(case_context, decision, AllowedPlanActions)
       IN  IF ~built.ok
           THEN /\ Raise(built.error)
                /\ UNCHANGED <<prompt, decision>>
           ELSE IF decision["decision"] = "NO_TREATMENT"
           THEN /\ decision' = Put(decision, "plan", << >>)
                /\ Goto("DONE")
                /\ UNCHANGED <<prompt, error>>
           ELSE /\ prompt' = built.value
                /\ Goto("AWAITING_PLAN")
                /\ UNCHANGED <<error, decision>>
    /\ UNCHANGED <<config, validator, retriever, builder, parser, ingestion, case_context, similar_cases, raw,
                   backend_calls, searches, backend_errors, decision_rejected,
                   plan_failed, plan_result, validated>>

\* build_plan: generate_plan builds the plan prompt from the decision.
PromptPlan ==
    /\ pc = "PROMPTING_PLAN"
    /\ LET built == build_plan_prompt(case_context, decision, AllowedPlanActions)
       IN  IF built.ok
           THEN /\ prompt' = built.value
                /\ Goto("AWAITING_PLAN")
                /\ UNCHANGED error
           ELSE /\ Raise(built.error)
                /\ UNCHANGED prompt
    /\ UNCHANGED <<config, validator, retriever, builder, parser, ingestion, case_context, similar_cases, raw, decision,
                   backend_calls, searches, backend_errors, decision_rejected,
                   plan_failed, plan_result, validated>>

\* Variant: the steps are filtered against planner.allowed_plan_actions.
attach_plan_filtered(d, built) ==
    Put(d, "plan", SelectSeq(Get(built, "plan", << >>),
                             LAMBDA st : st.action \in AllowedPlanActions))

\* decide: decision["plan"] = plan_result.get("plan", [])
attach_plan(d, built) == Put(d, "plan", Get(built, "plan", << >>))

\* The backend answers the plan prompt; generate_plan parses the text and decide
\* attaches the plan and returns.
PlanInference ==
    /\ pc = "AWAITING_PLAN"
    /\ \E text \in TextsOver(PlanTokens) :
          /\ plan_failed' = ~parse_json(text).ok
          /\ plan_result' = parse_plan(text)
          /\ decision' = attach_plan(decision, plan_result')
    /\ backend_calls' = Append(backend_calls, prompt)
    /\ Goto("DONE")
    /\ UNCHANGED <<config, validator, retriever, builder, parser, ingestion, case_context, similar_cases, prompt, raw,
                   error, searches, backend_errors, decision_rejected, validated>>

\* Variant: a failed plan inference is turned into the empty plan.
PlanBackendSwallowed ==
    /\ pc = "AWAITING_PLAN"
    /\ backend_calls' = Append(backend_calls, prompt)
    /\ \E diag \in Diagnostics : backend_errors' = Append(backend_errors, diag)
    /\ decision' = attach_plan(decision, FallbackPlan)
    /\ plan_failed' = TRUE
    /\ plan_result' = FallbackPlan
    /\ Goto("DONE")
    /\ UNCHANGED <<config, validator, retriever, builder, parser, ingestion, case_context, similar_cases, prompt, raw,
                   error, searches, decision_rejected, validated>>

\* The backend fails on the plan prompt.
PlanBackendFails ==
    /\ pc = "AWAITING_PLAN"
    /\ backend_calls' = Append(backend_calls, prompt)
    /\ \E diag \in Diagnostics :
          /\ backend_errors' = Append(backend_errors, diag)
          /\ Raise(backend_error(diag))
    /\ UNCHANGED <<config, validator, retriever, builder, parser, ingestion, case_context, similar_cases, prompt, raw,
                   decision, searches, decision_rejected, plan_failed, plan_result, validated>>

Next ==
    \/ Retrieve
    \/ PromptDecision
    \/ DecisionInference
    \/ DecisionBackendFails
    \/ ValidateDecision
    \/ PromptPlan
    \/ PlanInference
    \/ PlanBackendFails

Spec == Init /\ [][Next]_vars

-----------------------------------------------------------------------------
(* SafetyValidator.validate, called on any raw decision *)

InitValidator ==
    /\ allowed_actions \in Vocabularies
    /\ enforce_json = TRUE
    /\ block_unknown_actions \in BOOLEAN
    /\ require_human_confirmation \in BOOLEAN
    /\ case_store = SeedStore
    /\ case_context = CHOOSE c \in CaseContexts : TRUE
    /\ FrameInit
    /\ ValidatorInit
    /\ RetrieverInit
    /\ BuilderInit
    /\ ParserInit
    /\ IngestionInit

ValidateCall ==
    /\ \E context \in CaseContexts, d \in RawDecisions :
          /\ v_context' = context
          /\ v_input' = d
          /\ v_result' = validate(context, d, allowed_actions,
                                  block_unknown_actions, require_human_confirmation)
    /\ v_called' = TRUE
    /\ v_again' = FALSE
    /\ v_other_context' = EmptyDict
    /\ v_other_result' = EmptyDict
    /\ UNCHANGED <<config, frame, history, retriever, builder, parser, ingestion>>

\* The same validator is called once more with the same raw decision and another
\* case context.
ValidateAgain ==
    /\ v_called
    /\ \E context \in CaseContexts :
          /\ v_other_context' = context
          /\ v_other_result' = validate(context, v_input, allowed_actions,
                                        block_unknown_actions, require_human_confirmation)
    /\ v_again' = TRUE
    /\ UNCHANGED <<config, frame, history, retriever, builder, parser, ingestion, v_called, v_context, v_input, v_result>>

NextValidator == ValidateCall \/ ValidateAgain

SpecValidator == InitValidator /\ [][NextValidator]_vars

-----------------------------------------------------------------------------
(* DecisionAgent._retrieve_memory, called on any index and any case store *)

InitRetrieve ==
    /\ allowed_actions = TreatmentActions
    /\ enforce_json = TRUE
    /\ block_unknown_actions = TRUE
    /\ require_human_confirmation = FALSE
    /\ case_store \in CaseStores
    /\ case_context = CHOOSE c \in CaseContexts : TRUE
    /\ FrameInit
    /\ ValidatorInit
    /\ top_k \in 1..MaxNeighbours
    /\ r_called = FALSE
    /\ r_indices = << >>
    /\ r_reads = << >>
    /\ r_result = << >>
    /\ BuilderInit
    /\ ParserInit
    /\ IngestionInit

\* indices, _ = self.vector_store.search(query_text), then the comprehension.
RetrieveCall ==
    /\ ~r_called
    /\ \E indices \in IndexSearch(top_k) :
          /\ r_indices' = indices
          /\ r_reads' = retrieve(case_store, indices).reads
          /\ r_result' = retrieve(case_store, indices).texts
    /\ r_called' = TRUE
    /\ UNCHANGED <<config, frame, history, validator, builder, parser, ingestion, top_k>>

NextRetrieve == RetrieveCall

SpecRetrieve == InitRetrieve /\ [][NextRetrieve]_vars

-----------------------------------------------------------------------------
(* prompt_loader.build_prompt, called on any memory list *)

InitBuilder ==
    /\ allowed_actions \in Vocabularies
    /\ enforce_json = TRUE
    /\ block_unknown_actions = TRUE
    /\ require_human_confirmation = FALSE
    /\ case_store = SeedStore
    /\ case_context = CHOOSE c \in CaseContexts : TRUE
    /\ FrameInit
    /\ ValidatorInit
    /\ RetrieverInit
    /\ BuilderInit
    /\ ParserInit
    /\ IngestionInit

BuildPromptCall ==
    /\ ~b_called
    /\ \E context \in CaseContexts, memory \in Memories :
          /\ b_memory' = memory
          /\ b_prompt' = build_prompt(context, memory, allowed_actions)
    /\ b_called' = TRUE
    /\ UNCHANGED <<config, frame, history, validator, retriever, parser, ingestion>>

NextBuilder == BuildPromptCall

SpecBuilder == InitBuilder /\ [][NextBuilder]_vars

-----------------------------------------------------------------------------
(* Utils.parse_json, called on any text *)

InitParse ==
    /\ allowed_actions = TreatmentActions
    /\ enforce_json = TRUE
    /\ block_unknown_actions = TRUE
    /\ require_human_confirmation = FALSE
    /\ case_store = SeedStore
    /\ case_context = CHOOSE c \in CaseContexts : TRUE
    /\ FrameInit
    /\ ValidatorInit
    /\ RetrieverInit
    /\ BuilderInit
    /\ ParserInit
    /\ IngestionInit

ParseCall ==
    /\ ~p_called
    /\ \E n \in 0..MaxParseLen : \E text \in TextsOfLen(ParseTokens, n) :
          /\ p_text' = text
          /\ p_result' = parse_json(text)
    /\ p_called' = TRUE
    /\ UNCHANGED <<config, frame, history, validator, retriever, builder, ingestion,
                   p_again_called, p_dumped, p_again>>

NextParse == ParseCall

SpecParse == InitParse /\ [][NextParse]_vars

-----------------------------------------------------------------------------
(* Utils.parse_json on a text, then on the serialized object it returned *)

ExtractCall ==
    /\ ~p_called
    /\ \E n \in 0..MaxRoundTripLen : \E text \in TextsOfLen(RoundTripTokens, n) :
          /\ p_text' = text
          /\ p_result' = parse_json(text)
    /\ p_called' = TRUE
    /\ UNCHANGED <<config, frame, history, validator, retriever, builder, ingestion,
                   p_again_called, p_dumped, p_again>>

\* parse_json(json.dumps(o)) for the object o the first call returned.
ReextractCall ==
    /\ p_called
    /\ p_result.ok
    /\ ~p_again_called
    /\ p_dumped' = dumps(p_result.value)
    /\ p_again' = parse_json(p_dumped')
    /\ p_again_called' = TRUE
    /\ UNCHANGED <<config, frame, history, validator, retriever, builder, ingestion,
                   p_called, p_text, p_result>>

NextRoundTrip == ExtractCall \/ ReextractCall

SpecRoundTrip == InitParse /\ [][NextRoundTrip]_vars

-----------------------------------------------------------------------------
(* scripts/ingest_knowledge.py, run any number of times, a run possibly cut short *)

\* The texts ingestion builds from the cases of the seed file.
SeedTexts == CaseTexts \ {<< >>}

\* Before the first run there is no index file and no row: _initialize_index
\* starts an empty index when the file is missing, and the table is created empty.
InitIngest ==
    /\ allowed_actions = TreatmentActions
    /\ enforce_json = TRUE
    /\ block_unknown_actions = TRUE
    /\ require_human_confirmation = FALSE
    /\ case_store = << >>
    /\ case_context = CHOOSE c \in CaseContexts : TRUE
    /\ FrameInit
    /\ ValidatorInit
    /\ RetrieverInit
    /\ BuilderInit
    /\ ParserInit
    /\ \E n \in 1..MaxCases : cases \in [1..n -> SeedTexts]
    /\ index_file = << >>
    /\ index = << >>
    /\ cursor = 1
    /\ i_pc = "idle"
    /\ runs = 0
    /\ interrupted = FALSE

\* The script starts: VectorStore() reads the persisted index, MetadataStore()
\* opens the database, the seed file is loaded.
StartRun ==
    /\ i_pc = "idle"
    /\ runs < MaxRuns
    /\ runs' = runs + 1
    /\ index' = index_file
    /\ cursor' = 1
    /\ i_pc' = "adding"
    /\ UNCHANGED <<config, frame, history, validator, retriever, builder, parser,
                   cases, index_file, interrupted>>

\* vector_store.add(text): the vector goes to the end of the index in memory.
AddVector ==
    /\ i_pc = "adding"
    /\ cursor <= Len(cases)
    /\ index' = Append(index, cases[cursor])
    /\ i_pc' = "inserting"
    /\ UNCHANGED <<config, frame, history, validator, retriever, builder, parser,
                   cases, index_file, cursor, runs, interrupted>>

\* metadata_store.add_case(text): INSERT under the next AUTOINCREMENT id, committed.
InsertCase ==
    /\ i_pc = "inserting"
    /\ case_store' = Append(case_store, cases[cursor])
    /\ cursor' = cursor + 1
    /\ i_pc' = "adding"
    /\ UNCHANGED <<allowed_actions, enforce_json, block_unknown_actions,
                   require_human_confirmation, frame, history, validator, retriever,
                   builder, parser, cases, index_file, index, runs, interrupted>>

\* vector_store.save() after the loop: the index in memory replaces the file.
SaveIndex ==
    /\ i_pc = "adding"
    /\ cursor > Len(cases)
    /\ index_file' = index
    /\ index' = << >>
    /\ i_pc' = "idle"
    /\ UNCHANGED <<config, frame, history, validator, retriever, builder, parser,
                   cases, cursor, runs, interrupted>>

\* The run is cut short before its save (between an add and its insert, between
\* two cases, or after the loop): the index in memory is lost, the committed rows
\* stay.
Interrupt ==
    /\ i_pc \in {"adding", "inserting"}
    /\ index' = << >>
    /\ i_pc' = "idle"
    /\ interrupted' = TRUE
    /\ UNCHANGED <<config, frame, history, validator, retriever, builder, parser,
                   cases, index_file, cursor, runs>>

NextIngest == StartRun \/ AddVector \/ InsertCase \/ SaveIndex \/ Interrupt

SpecIngest == InitIngest /\ [][NextIngest]_vars

-----------------------------------------------------------------------------
(* Claims about SafetyValidator.validate, checked under SpecValidator *)

SafetyFields == {"decision", "reason", "safe", "override"}

\* validate returned the blocked decision: NO_TREATMENT, safe = false, override = true.
IsBlocked(result) ==
    /\ {"decision", "safe", "override"} \subseteq DOMAIN result
    /\ result["decision"] = "NO_TREATMENT"
    /\ result["safe"] = FALSE
    /\ result["override"] = TRUE

\* validate passed the decision: safe = true, override = false.
IsPassed(result) ==
    /\ {"safe", "override"} \subseteq DOMAIN result
    /\ result["safe"] = TRUE
    /\ result["override"] = FALSE

\* C1 as stated: with block_unknown_actions enabled, every raw decision whose
\* decision field is absent or outside the vocabulary is blocked, for every
\* vocabulary, also one that contains NO_TREATMENT.
C1_AbsentOrUnknownBlocked ==
    (/\ v_called
     /\ block_unknown_actions
     /\ \/ "decision" \notin DOMAIN v_input
        \/ v_input["decision"] \notin allowed_actions)
    => IsBlocked(v_result)

\* C1 amended: with block_unknown_actions enabled, a raw decision is blocked when
\* its decision field is present and outside the vocabulary, or absent while the
\* vocabulary does not contain NO_TREATMENT; an absent decision under a vocabulary
\* that contains NO_TREATMENT is passed with safe = true and override = false.
C1_DefaultedDecisionBlocked ==
    (v_called /\ block_unknown_actions) =>
        /\ ("decision" \in DOMAIN v_input /\ v_input["decision"] \notin allowed_actions)
              => IsBlocked(v_result)
        /\ ("decision" \notin DOMAIN v_input /\ "NO_TREATMENT" \notin allowed_actions)
              => IsBlocked(v_result)
        /\ ("decision" \notin DOMAIN v_input /\ "NO_TREATMENT" \in allowed_actions)
              => IsPassed(v_result)

\* C1 witness: an absent decision was blocked under a vocabulary without NO_TREATMENT.
C1_Witness ==
    /\ v_called
    /\ block_unknown_actions
    /\ "decision" \notin DOMAIN v_input
    /\ "NO_TREATMENT" \notin allowed_actions
    /\ IsBlocked(v_result)

\* C3 as stated: a blocked result consists of exactly the four fields decision,
\* reason, safe and override; no other key of the raw input appears in it.
C3_BlockedHasOnlyFourFields ==
    (v_called /\ IsBlocked(v_result)) =>
        /\ DOMAIN v_result = SafetyFields
        /\ v_result["reason"] = "Decision not in allowed action list."

\* C3 amended: a blocked result carries the four fields decision, reason
\* ("Decision not in allowed action list."), safe and override, and besides them
\* every other key of the raw input, with the input's value.
C3_BlockedKeepsOtherFields ==
    (v_called /\ IsBlocked(v_result)) =>
        /\ DOMAIN v_result = SafetyFields \cup DOMAIN v_input
        /\ v_result["reason"] = "Decision not in allowed action list."
        /\ \A k \in DOMAIN v_input \ SafetyFields : v_result[k] = v_input[k]

\* C3 witness: a blocked result that still carries the extra key of its input.
C3_Witness ==
    /\ v_called
    /\ IsBlocked(v_result)
    /\ "note" \in DOMAIN v_input
    /\ "note" \in DOMAIN v_result

C16_SafeAndOverrideCoupled ==
    v_called =>
        /\ {"safe", "override"} \subseteq DOMAIN v_result
        /\ v_result["safe"] \in BOOLEAN
        /\ v_result["safe"] = FALSE =>
              /\ "decision" \in DOMAIN v_result
              /\ v_result["decision"] = "NO_TREATMENT"
              /\ v_result["override"] = TRUE
        /\ v_result["safe"] = TRUE => v_result["override"] = FALSE

\* C16 witness: an unknown decision whose input claimed safe = false was blocked,
\* and the result names NO_TREATMENT, not the decision of the input.
C16_Witness ==
    /\ v_called
    /\ "decision" \in DOMAIN v_input
    /\ v_input["decision"] = "BURN_FIELD"
    /\ "safe" \in DOMAIN v_input
    /\ v_result["safe"] = FALSE
    /\ v_result["decision"] = "NO_TREATMENT"
    /\ v_result["override"] = TRUE

-----------------------------------------------------------------------------
(* Claims about DecisionAgent.decide, checked under Spec *)

\* The decisions a result may carry.
Permitted == allowed_actions \cup {"NO_TREATMENT"}

\* C2 as stated: every result returned by decide has the keys decision, reason,
\* safe, override and plan.
C2_ResultHasAllKeys ==
    pc = "DONE" =>
        {"decision", "reason", "safe", "override", "plan"} \subseteq DOMAIN decision

\* C4 as stated: decide never raises because of what the model answered; the only
\* exception that leaves it is a backend failure.
C4_RaisesOnlyOnBackendFailure ==
    pc = "RAISED" => error["type"] = "RuntimeError" /\ backend_errors # << >>

\* C5: when the decision-stage text has no brace pair, is not valid JSON or names a
\* decision outside the vocabulary, the result of decide is the fallback decision
\* with the fallback reason, and nothing of the rejected text is in it.
C5_RejectedTextFallsBack ==
    (pc = "DONE" /\ decision_rejected) =>
        /\ DOMAIN decision = {"decision", "reason", "plan"}
        /\ decision["decision"] = "NO_TREATMENT"
        /\ decision["reason"] = "Fallback: invalid or unsafe LLM output."

\* C5 witness: decide returned after an unusable decision-stage text.
C5_Witness ==
    /\ pc = "DONE"
    /\ decision_rejected
    /\ decision["decision"] = "NO_TREATMENT"

\* C6: a backend failure at either stage leaves decide as an error that carries the
\* backend's diagnostic; no decision, fallback or plan is returned for it.
C6_BackendFailurePropagates ==
    backend_errors # << >> =>
        /\ pc = "RAISED"
        /\ Len(backend_errors) = 1
        /\ error = backend_error(backend_errors[1])
        /\ "plan" \notin DOMAIN decision

\* C6 witness: the backend failed at the plan stage, after a decision was made.
C6_Witness ==
    /\ backend_errors # << >>
    /\ pc = "RAISED"
    /\ Len(backend_calls) = 2
    /\ validated # EmptyDict

PipelineStages ==
    <<"RETRIEVING", "PROMPTING_DECISION", "AWAITING_DECISION", "VALIDATING",
      "PROMPTING_PLAN", "AWAITING_PLAN", "DONE">>

\* C7: a decide call that completes has visited the seven stages in order, each
\* once: one index search, two backend runs (the decision prompt, then the plan
\* prompt built from the validated decision), also when the decision fell back.
C7_StagesInOrderOnce ==
    pc = "DONE" =>
        /\ stages = PipelineStages
        /\ searches = 1
        /\ Len(backend_calls) = 2
        /\ backend_calls[1]["kind"] = "decision"
        /\ backend_calls[2]["kind"] = "plan"
        /\ backend_calls[2]["decision"] = validated["decision"]
        /\ backend_calls[2]["reason"] = Get(validated, "reason", "N/A")

\* C7 witness: a completed call whose decision fell back to NO_TREATMENT.
C7_Witness ==
    /\ pc = "DONE"
    /\ decision_rejected
    /\ Len(backend_calls) = 2

\* C9: a returned decision is in the vocabulary or is NO_TREATMENT, and every plan
\* prompt built or sent to the backend names such a decision, whatever
\* block_unknown_actions and enforce_json are.
C9_OnlyPermittedDecisions ==
    /\ pc = "DONE" => decision["decision"] \in Permitted
    /\ pc = "AWAITING_PLAN" => prompt["decision"] \in Permitted
    /\ \A i \in DOMAIN backend_calls :
          backend_calls[i]["kind"] = "plan" =>
              backend_calls[i]["decision"] \in Permitted

\* C9 witness: with block_unknown_actions off, a plan was requested for the fallback
\* after the decision-stage text was rejected.
C9_Witness ==
    /\ pc = "DONE"
    /\ ~block_unknown_actions
    /\ decision_rejected
    /\ Len(backend_calls) = 2
    /\ backend_calls[2]["decision"] = "NO_TREATMENT"

\* C10 as stated: when no object can be extracted from the plan text, decide
\* returns the decision of the decision stage with an empty plan and with a reason
\* field that explains the plan failure.
C10_PlanFailureExplained ==
    (pc = "DONE" /\ plan_failed) =>
        /\ decision["plan"] = << >>
        /\ decision["decision"] = validated["decision"]
        /\ "reason" \in DOMAIN decision
        /\ decision["reason"] = FallbackPlan["reason"]

\* C11: when the plan-stage text parses to an object with a plan list, the result of
\* decide carries exactly that list under plan (same steps, same order, also a step
\* whose action is outside the plan vocabulary), and every other field of the
\* result is the field the decision stage left, with its value.
C11_PlanAttachedVerbatim ==
    (pc = "DONE" /\ ~plan_failed /\ "plan" \in DOMAIN plan_result) =>
        /\ decision["plan"] = plan_result["plan"]
        /\ decision["plan"] = PlanSteps
        /\ DOMAIN decision = DOMAIN validated \cup {"plan"}
        /\ \A k \in DOMAIN validated \ {"plan"} : decision[k] = validated[k]

\* C11 witness: a plan with a step outside the plan vocabulary was attached to a
\* decision that carries a reason, and the plan object carried a reason of its own.
C11_Witness ==
    /\ pc = "DONE"
    /\ ~plan_failed
    /\ "plan" \in DOMAIN plan_result
    /\ "reason" \in DOMAIN plan_result
    /\ \E i \in DOMAIN decision["plan"] :
          decision["plan"][i].action \notin AllowedPlanActions
    /\ decision["decision"] = "FUNGICIDE"
    /\ "reason" \in DOMAIN decision
    /\ decision["reason"] = "ok"

-----------------------------------------------------------------------------
(* Claims about DecisionAgent._retrieve_memory, checked under SpecRetrieve *)

\* The neighbour id at position i of the search result has a row in the store.
HasRow(i) == r_indices[i] + 1 \in DOMAIN case_store

\* C12: _retrieve_memory returns at most top_k texts and at most one per neighbour
\* id; every text is the stored text of a returned id, an id without a row (the
\* padding id -1 included) contributes nothing, and the texts come in the order
\* of the neighbour ids.
C12_RetrievedTextsBoundedOrdered ==
    r_called =>
        /\ Len(r_result) <= top_k
        /\ Len(r_result) <= Len(r_indices)
        /\ \A j \in DOMAIN r_result : \E k \in DOMAIN case_store : r_result[j] = case_store[k]
        /\ \E f \in [DOMAIN r_result -> DOMAIN r_indices] :
              /\ \A a, b \in DOMAIN r_result : a < b => f[a] < f[b]
              /\ \A j \in DOMAIN r_result :
                    HasRow(f[j]) /\ r_result[j] = case_store[r_indices[f[j]] + 1]
              /\ \A i \in DOMAIN r_indices : HasRow(i) => \E j \in DOMAIN r_result : f[j] = i

\* C12 witness: a search returned the padding id between two ids that have rows
\* with different texts, the later row first; two texts came back in that order.
C12_Witness ==
    /\ r_called
    /\ r_indices = <<1, -1, 0>>
    /\ {1, 2} \subseteq DOMAIN case_store
    /\ case_store[1] # case_store[2]
    /\ r_result = <<case_store[2], case_store[1]>>

\* C13: for every neighbour id i the store is read at key i + 1 and at no other
\* key, one read per returned id, in the order of the ids.
C13_OneReadPerIdAtOffsetOne ==
    r_called =>
        /\ Len(r_reads) = Len(r_indices)
        /\ \A j \in DOMAIN r_indices : r_reads[j] = r_indices[j] + 1

\* C13 witness: ids 0 and -1 were returned; the store was read at keys 1 and 0,
\* and only key 1 had a row.
C13_Witness ==
    /\ r_called
    /\ r_indices = <<0, -1>>
    /\ r_reads = <<1, 0>>
    /\ 1 \in DOMAIN case_store
    /\ Len(r_result) = 1

-----------------------------------------------------------------------------
(* Claims about prompt_loader.build_prompt, checked under SpecBuilder *)

RECURSIVE Lines(_)
\* A text split at its newlines.
Lines(t) ==
    IF \A i \in DOMAIN t : t[i] # "\n" THEN <<t>>
    ELSE LET k == CHOOSE i \in DOMAIN t : t[i] = "\n" /\ \A j \in 1..(i - 1) : t[j] # "\n"
         IN  <<SubSeq(t, 1, k - 1)>> \o Lines(SubSeq(t, k + 1, Len(t)))

\* C17: the memory block is never empty; for an empty memory list and for one of
\* null entries only it is the "no similar cases" sentinel; for a list with at
\* least one non-empty text its lines are the non-null entries in retrieval order.
C17_MemoryBlockSentinelOrJoined ==
    b_called =>
        /\ b_prompt.memory_block # << >>
        /\ (\A i \in DOMAIN b_memory : b_memory[i] = NoCase)
              => b_prompt.memory_block = NoSimilarCases
        /\ (\E i \in DOMAIN b_memory : b_memory[i] \notin {NoCase, << >>})
              => Lines(b_prompt.memory_block) = SelectSeq(b_memory, LAMBDA m : m # NoCase)

\* C17 witness: two different texts with a null entry between them were rendered
\* as two lines, in retrieval order.
C17_Witness ==
    /\ b_called
    /\ Len(b_memory) = 3
    /\ b_memory[2] = NoCase
    /\ b_memory[1] \notin {NoCase, << >>}
    /\ b_memory[3] \notin {NoCase, << >>, b_memory[1]}
    /\ b_prompt.memory_block = b_memory[1] \o <<"\n">> \o b_memory[3]

-----------------------------------------------------------------------------
(* Claims about Utils.parse_json, checked under SpecParse and SpecRoundTrip *)

\* The fence pattern matches from the fence at i to the fence after the brace at k.
FenceMatch(t, i, k) ==
    /\ i + 2 <= k
    /\ k + 1 <= Len(t)
    /\ t[i] = FENCE
    /\ t[i + 1] = LBRACE
    /\ t[k] = RBRACE
    /\ t[k + 1] = FENCE

\* The match a leftmost, shortest search reports.
FirstMatch(t, i, k) ==
    /\ FenceMatch(t, i, k)
    /\ \A j \in 1..Len(t), m \in 1..Len(t) :
          FenceMatch(t, j, m) => (i < j \/ (i = j /\ k <= m))

\* Some part of the text is a complete JSON object.
HoldsObject(t) ==
    \E a \in 1..Len(t), b \in 1..Len(t) : a < b /\ json_loads(SubSeq(t, a, b)).ok

\* C14: when the fence pattern matches, parse_json returns what the one parse of the
\* first fenced group gives, success or failure, whatever else the text holds;
\* when it does not match, parse_json fails if the text has no opening or no
\* closing brace and otherwise returns what the one parse of the text from its
\* first opening brace to its last closing brace gives.  A returned object is
\* the object of that part of the text as it stands.
C14_FenceThenBraceScan ==
    p_called =>
        LET t == p_text
            matched == \E i \in 1..Len(t), k \in 1..Len(t) : FenceMatch(t, i, k)
            first == find(t, LBRACE)
            last == rfind(t, RBRACE)
        IN  /\ \A i \in 1..Len(t), k \in 1..Len(t) :
                  FirstMatch(t, i, k) => p_result = json_loads(SubSeq(t, i + 1, k))
            /\ (~matched /\ (first = 0 \/ last = 0)) => ~p_result.ok
            /\ (~matched /\ first # 0 /\ last # 0)
                  => p_result = json_loads(slice(t, first, last))
            /\ p_result.ok =>
                  \E a \in 1..Len(t), b \in 1..Len(t) :
                      /\ json_loads(SubSeq(t, a, b)) = p_result
                      /\ matched \/ (\A j \in 1..Len(t) :
                                        /\ j < a => ~Contains(t[j], LBRACE)
                                        /\ j > b => ~Contains(t[j], RBRACE))

\* C14 witness: a fenced group that is not valid JSON made parse_json fail although
\* a complete object stands elsewhere in the text.
C14_Witness ==
    /\ p_called
    /\ \E i \in 1..Len(p_text), k \in 1..Len(p_text) :
          /\ FirstMatch(p_text, i, k)
          /\ ~json_loads(SubSeq(p_text, i + 1, k)).ok
          /\ HoldsObject(SubSeq(p_text, 1, i - 1))
    /\ ~p_result.ok

\* C18 as stated: for every text on which parse_json succeeds with object o,
\* parse_json succeeds on the serialized o and returns an object equal to o.
C18_ExtractionIdempotent ==
    p_again_called => (p_again.ok /\ p_again.value = p_result.value)

-----------------------------------------------------------------------------
(* Claims about scripts/ingest_knowledge.py, checked under SpecIngest *)

\* C19 as stated: after any run of the ingestion loop, completed or interrupted,
\* first or repeated, the text stored at store key i + 1 is the text whose vector
\* sits at position i of the persisted index, for every position i (from 0).
C19_IndexAndStoreAligned ==
    i_pc = "idle" =>
        \A i \in 0..(Len(index_file) - 1) :
            /\ i + 1 \in DOMAIN case_store
            /\ case_store[i + 1] = index_file[i + 1]

====
